---- MODULE Spec2Model ----
(***************************************************************************)
(* Model of scripts/deduplicate_gpx.py: parsing of the four GPX sources,   *)
(* the west/east partition, the greedy 10 m deduplication, the short-name  *)
(* generator and the reef-type classifier.                                 *)
(*                                                                         *)
(* Representation.                                                         *)
(*  - A text (str) is a sequence of Unicode code points, so that `in`,     *)
(*    len() and string formatting are computed and not assumed.  None is   *)
(*    the one-element sequence <<-1>>; an XML child element that is not    *)
(*    there is <<-2>>.                                                     *)
(*  - A float coordinate is an integer number of 1e-5 degrees (CoordScale  *)
(*    units per degree), or NaN.  A distance is an integer number of       *)
(*    millimetres, or NaN.                                                 *)
(***************************************************************************)
EXTENDS Integers, Sequences, FiniteSets, TLC

VARIABLES pc, files, west_points, east_points, west_unique, east_unique,
          written, errors, arg, ret, ret2

vars == <<pc, files, west_points, east_points, west_unique, east_unique,
          written, errors, arg, ret, ret2>>

----------------------------------------------------------------------------
(* Bounds of the model.                                                    *)

\* total number of <wpt> elements over the four input files
MaxTotal == 2
\* length of the sequences handed to remove_duplicates on its own
MaxLen == 4
\* length of the short sequences handed to generate_short_names on its own
MaxNameLen == 2
\* length of the long single-prefix run handed to generate_short_names
LongRunLen == 1001
\* number of text fragments concatenated into a label or a note
MaxFrags == 2

----------------------------------------------------------------------------
(* Texts and floats.                                                       *)

None == <<-1>>
Absent == <<-2>>
EmptyStr == <<>>

\* Python truthiness of a str-or-None value
Truthy(text) == text # None /\ text # EmptyStr

\* Python `a or b` on str-or-None values
Or(a, b) == IF Truthy(a) THEN a ELSE b

\* Python `sub in text`
In(sub, text) ==
  /\ text # None
  /\ \E i \in 0..(Len(text) - Len(sub)) : SubSeq(text, i + 1, i + Len(sub)) = sub

\* units per degree of the fixed-point coordinates, and its number of digits
CoordScale == 100000
FracDigits == 5

\* the float NaN: a value off the coordinate grid; every comparison with it is false
NaN == 2000000000

Lt(a, b) == a # NaN /\ b # NaN /\ a < b
Le(a, b) == a # NaN /\ b # NaN /\ a <= b
Ge(a, b) == a # NaN /\ b # NaN /\ a >= b

Abs(x) == IF x < 0 THEN -x ELSE x

IsDigit(c) == c \in 48..57

RECURSIVE IntOf(_)
IntOf(ds) == IF ds = <<>> THEN 0 ELSE 10 * IntOf(SubSeq(ds, 1, Len(ds) - 1)) + (ds[Len(ds)] - 48)

RECURSIVE PadRight(_, _)
PadRight(ds, n) == IF Len(ds) >= n THEN ds ELSE PadRight(Append(ds, 48), n)

\* float(s) of an XML attribute value: [raised, val].  s = None (attribute not
\* there) raises TypeError; a text that is not a number raises ValueError;
\* "nan" is the float NaN; "[-]ddd[.ddd]" is its value in 1e-5 degrees.  The
\* attribute values of the model are texts of '-', digits, '.' and letters;
\* exponents, blanks and infinities are not among them.
float(s) ==
  LET neg == s # <<>> /\ s[1] = 45
      body == IF neg THEN Tail(s) ELSE s
      dots == {i \in 1..Len(body) : body[i] = 46}
      dot == IF dots = {} THEN Len(body) + 1 ELSE CHOOSE i \in dots : TRUE
      ip == SubSeq(body, 1, dot - 1)
      fp == SubSeq(body, dot + 1, Len(body))
      wellformed == /\ Cardinality(dots) <= 1
                    /\ Len(ip) + Len(fp) >= 1
                    /\ Len(fp) <= FracDigits
                    /\ \A i \in 1..Len(ip) : IsDigit(ip[i])
                    /\ \A i \in 1..Len(fp) : IsDigit(fp[i])
      mag == IntOf(ip) * CoordScale + IntOf(PadRight(fp, FracDigits))
  IN  IF s = None THEN [raised |-> TRUE, val |-> 0]
      ELSE IF s = <<110, 97, 110>> THEN [raised |-> FALSE, val |-> NaN]
      ELSE IF ~wellformed THEN [raised |-> TRUE, val |-> 0]
      ELSE [raised |-> FALSE, val |-> IF neg THEN -mag ELSE mag]

----------------------------------------------------------------------------
(* Constants of the script.                                                *)

DUPLICATE_RADIUS_M == 10
\* 127.5 degrees
LON_BOUNDARY == 12750000

----------------------------------------------------------------------------
(* haversine: great-circle distance in millimetres.                        *)

\* R * radians(1e-5 degree) = 6371000 m * pi / 180 / 100000 = 1.1119 m
MmPerUnit == 1112
\* a distance of more than NearUnits grid units on one axis is reported as Far
NearUnits == 29
Far == 1000000000

RECURSIVE ISqrtIn(_, _, _)
ISqrtIn(lo, hi, x) ==
  IF lo >= hi THEN lo
  ELSE LET mid == (lo + hi + 1) \div 2
       IN  IF mid * mid <= x THEN ISqrtIn(mid, hi, x) ELSE ISqrtIn(lo, mid - 1, x)

sqrt(x) == ISqrtIn(0, 46340, x)

\* The modelled latitudes lie on the equator or at 180 degrees, where
\* cos(lat1) * cos(lat2) = 1 for two near points, so that
\* a = sin(dlat/2)^2 + sin(dlon/2)^2 and, for small angles,
\* R * c = R * sqrt(dlat^2 + dlon^2).  dlon is taken modulo 360 degrees, as
\* sin(dlon/2)^2 is.
haversine(lat1, lon1, lat2, lon2) ==
  IF lat1 = NaN \/ lon1 = NaN \/ lat2 = NaN \/ lon2 = NaN THEN NaN
  ELSE LET dlat == Abs(lat2 - lat1)
           d == (lon2 - lon1) % (360 * CoordScale)
           dlon == IF d > 180 * CoordScale THEN 360 * CoordScale - d ELSE d
       IN  IF dlat > NearUnits \/ dlon > NearUnits THEN Far
           ELSE sqrt(MmPerUnit * MmPerUnit * (dlat * dlat + dlon * dlon))

----------------------------------------------------------------------------
(* The reef-type table, in declaration order.                              *)

REEF_ABBREV ==
  <<
    [full_name |-> <<49324, 44033, 54805, 50612, 52488>>,
     abbrev |-> <<49324, 44033>>],   \* line 24
    [full_name |-> <<49324, 44033, 54805>>,
     abbrev |-> <<49324, 44033>>],   \* line 25
    [full_name |-> <<49324, 44033>>,
     abbrev |-> <<49324, 44033>>],   \* line 26
    [full_name |-> <<51104, 48372, 54805, 50612, 52488>>,
     abbrev |-> <<51104, 48372>>],   \* line 27
    [full_name |-> <<51104, 48372, 54805>>,
     abbrev |-> <<51104, 48372>>],   \* line 28
    [full_name |-> <<53580, 53944, 46972, 54805, 50612, 52488>>,
     abbrev |-> <<53580, 53944, 46972>>],   \* line 29
    [full_name |-> <<53580, 53944, 46972, 54805>>,
     abbrev |-> <<53580, 53944, 46972>>],   \* line 30
    [full_name |-> <<53580, 53944, 46972>>,
     abbrev |-> <<53580, 53944, 46972>>],   \* line 31
    [full_name |-> <<45824, 54805, 51204, 51452, 50612, 52488>>,
     abbrev |-> <<45824, 51204, 51452>>],   \* line 32
    [full_name |-> <<49888, 50836, 52384, 54805, 50612, 52488>>,
     abbrev |-> <<49888, 50836, 52384>>],   \* line 33
    [full_name |-> <<49888, 50836, 52384>>,
     abbrev |-> <<49888, 50836, 52384>>],   \* line 34
    [full_name |-> <<54036, 44033, 49345, 51088, 54805, 44053, 51228, 50612, 52488>>,
     abbrev |-> <<54036, 44033>>],   \* line 35
    [full_name |-> <<54036, 44033, 49345, 51088, 54805, 44053, 51228>>,
     abbrev |-> <<54036, 44033>>],   \* line 36
    [full_name |-> <<54036, 44033, 49345, 51088, 54805, 50612, 52488>>,
     abbrev |-> <<54036, 44033>>],   \* line 37
    [full_name |-> <<54260, 47532, 53080, 50612, 52488>>,
     abbrev |-> <<54260, 47532, 53080>>],   \* line 38
    [full_name |-> <<45824, 54805, 44053, 51228, 50612, 52488>>,
     abbrev |-> <<45824, 44053, 51228>>],   \* line 39
    [full_name |-> <<44053, 51228, 44256, 44592, 44404, 50612, 52488>>,
     abbrev |-> <<44256, 44592, 44404>>],   \* line 40
    [full_name |-> <<49108, 49340, 44033, 54805, 50612, 52488>>,
     abbrev |-> <<49108, 49340, 44033>>],   \* line 41
    [full_name |-> <<50672, 50557, 51648, 48152, 50857, 44053, 51228, 50612, 52488>>,
     abbrev |-> <<50672, 50557>>],   \* line 42
    [full_name |-> <<46036, 54805, 51613, 49885, 50612, 52488>>,
     abbrev |-> <<46036, 54805>>],   \* line 43
    [full_name |-> <<46036, 54805, 51473, 49885>>,
     abbrev |-> <<46036, 54805>>],   \* line 44
    [full_name |-> <<50896, 53685, 54805>>,
     abbrev |-> <<50896, 53685>>],   \* line 45
    [full_name |-> <<50896, 53685>>,
     abbrev |-> <<50896, 53685>>],   \* line 46
    [full_name |-> <<50, 45800, 49345, 51088, 54805, 44053, 51228, 50612, 52488>>,
     abbrev |-> <<50, 45800, 49345, 51088>>],   \* line 47
    [full_name |-> <<50, 45800, 49345, 51088, 44053, 51228, 54805, 50612, 52488>>,
     abbrev |-> <<50, 45800, 49345, 51088>>],   \* line 48
    [full_name |-> <<45800, 49345, 51088, 54805, 44053, 51228, 50612, 52488>>,
     abbrev |-> <<50, 45800, 49345, 51088>>],   \* line 49
    [full_name |-> <<45800, 49345, 51088, 54805, 44053, 51228>>,
     abbrev |-> <<50, 45800, 49345, 51088>>],   \* line 50
    [full_name |-> <<45216, 44060, 48512, 47484, 44032, 51652, 50612, 52488>>,
     abbrev |-> <<45216, 44060>>],   \* line 51
    [full_name |-> <<45216, 44060, 48512>>,
     abbrev |-> <<45216, 44060>>],   \* line 52
    [full_name |-> <<49437, 51116, 51312, 54633, 49885, 50612, 52488>>,
     abbrev |-> <<49437, 51116>>],   \* line 53
    [full_name |-> <<53584, 53944, 54805, 50612, 52488>>,
     abbrev |-> <<53584, 53944>>],   \* line 54
    [full_name |-> <<53584, 53944, 54805, 51064, 44277, 50612, 52488>>,
     abbrev |-> <<53584, 53944>>],   \* line 55
    [full_name |-> <<53584, 53944, 54805>>,
     abbrev |-> <<53584, 53944>>],   \* line 56
    [full_name |-> <<45796, 47732, 52404, 51064, 44277, 50612, 52488>>,
     abbrev |-> <<45796, 47732, 52404>>],   \* line 57
    [full_name |-> <<50500, 52824, 54805, 50612, 52488>>,
     abbrev |-> <<50500, 52824>>],   \* line 58
    [full_name |-> <<50500, 52824, 54805>>,
     abbrev |-> <<50500, 52824>>],   \* line 59
    [full_name |-> <<49324, 44033, 51204, 51452, 50612, 52488>>,
     abbrev |-> <<49324, 51204, 51452>>],   \* line 60
    [full_name |-> <<49884, 54744, 50612, 52488, 49324, 44033, 51204, 51452>>,
     abbrev |-> <<49324, 51204, 51452>>],   \* line 61
    [full_name |-> <<51221, 49340, 44033, 49108, 50612, 52488>>,
     abbrev |-> <<51221, 49340, 44033>>],   \* line 62
    [full_name |-> <<51221, 49340, 44033, 49108, 54805, 50612, 52488>>,
     abbrev |-> <<51221, 49340, 44033>>],   \* line 63
    [full_name |-> <<49884, 54744, 50612, 52488>>,
     abbrev |-> <<49884, 54744>>],   \* line 64
    [full_name |-> <<54588, 46972, 48120, 46300, 44053, 51228, 50612, 52488>>,
     abbrev |-> <<54588, 46972, 48120, 46300>>],   \* line 65
    [full_name |-> <<51060, 51473, 46036, 54805, 50612, 52488>>,
     abbrev |-> <<51060, 51473, 46036>>],   \* line 66
    [full_name |-> <<44228, 45800, 54805, 51064, 44277, 50612, 52488>>,
     abbrev |-> <<44228, 45800>>],   \* line 67
    [full_name |-> <<44228, 45800, 49885, 50612, 52488>>,
     abbrev |-> <<44228, 45800>>],   \* line 68
    [full_name |-> <<53457, 44592, 45800, 54805, 44053, 51228, 50612, 52488>>,
     abbrev |-> <<53457, 44592, 45800>>],   \* line 69
    [full_name |-> <<49340, 45800, 44201, 49892, 54805, 44053, 51228, 50612, 52488>>,
     abbrev |-> <<49340, 45800, 44201, 49892>>],   \* line 70
    [full_name |-> <<49340, 45800, 44201, 49892, 54805, 51064, 44277, 50612, 52488>>,
     abbrev |-> <<49340, 45800, 44201, 49892>>],   \* line 71
    [full_name |-> <<49324, 45796, 47532, 44852, 48373, 54633, 44053, 51228, 50612, 52488>>,
     abbrev |-> <<49324, 45796, 47532>>],   \* line 72
    [full_name |-> <<49324, 45796, 47532, 44852, 48373, 54633, 50612, 52488>>,
     abbrev |-> <<49324, 45796, 47532>>],   \* line 73
    [full_name |-> <<54036, 44033, 48324, 44053, 51228, 50612, 52488>>,
     abbrev |-> <<54036, 44033, 48324>>],   \* line 74
    [full_name |-> <<53552, 45328, 54805, 50612, 52488>>,
     abbrev |-> <<53552, 45328>>],   \* line 75
    [full_name |-> <<53552, 45328, 54805>>,
     abbrev |-> <<53552, 45328>>],   \* line 76
    [full_name |-> <<48169, 49324, 54805, 51064, 44277, 50612, 52488>>,
     abbrev |-> <<48169, 49324, 54805>>],   \* line 77
    [full_name |-> <<48169, 49324, 54805, 50612, 52488>>,
     abbrev |-> <<48169, 49324, 54805>>],   \* line 78
    [full_name |-> <<50896, 53685, 50, 45800, 44053, 51228, 50612, 52488>>,
     abbrev |-> <<50896, 53685, 50, 45800>>],   \* line 79
    [full_name |-> <<50976, 49440, 54805, 50612, 52488>>,
     abbrev |-> <<50976, 49440, 54805>>],   \* line 80
    [full_name |-> <<50976, 49440, 54805, 44201, 54032, 51060, 51080, 45716, 45824, 54805, 49324, 44033, 50612, 52488>>,
     abbrev |-> <<50976, 49440, 49324, 44033>>],   \* line 81
    [full_name |-> <<50857, 49849, 50976, 46020, 54805, 51064, 44277, 50612, 52488>>,
     abbrev |-> <<50857, 49849>>],   \* line 82
    [full_name |-> <<49345, 51088, 54805, 44053, 51228>>,
     abbrev |-> <<49345, 51088, 44053, 51228>>],   \* line 83
    [full_name |-> <<48724, 50612, 52488>>,
     abbrev |-> <<48724>>],   \* line 84
    [full_name |-> <<45796, 44592, 45733, 49457, 50612, 52488>>,
     abbrev |-> <<45796, 44592, 45733>>],   \* line 85
    [full_name |-> <<45796, 44592, 45733, 49340, 44033, 54805, 50612, 52488>>,
     abbrev |-> <<45796, 44592, 45733, 49340, 44033>>],   \* line 86
    [full_name |-> <<54056, 51312, 47448, 50857, 54889, 53664, 50612, 52488>>,
     abbrev |-> <<54889, 53664>>],   \* line 87
    [full_name |-> <<54036, 44033, 48152, 44396, 54805, 51473, 54805>>,
     abbrev |-> <<54036, 44033, 48152, 44396>>],   \* line 88
    [full_name |-> <<54036, 44033, 48152, 44396, 54805, 49548, 54805, 44053, 51228, 50612, 52488>>,
     abbrev |-> <<54036, 44033, 48152, 44396>>],   \* line 89
    [full_name |-> <<53944, 47532, 53668>>,
     abbrev |-> <<53944, 47532, 53668>>],   \* line 90
    [full_name |-> <<49324, 45800, 44221, 49324, 54805, 50612, 52488>>,
     abbrev |-> <<49324, 45800, 44221, 49324>>],   \* line 91
    [full_name |-> <<48373, 54633, 54805>>,
     abbrev |-> <<48373, 54633>>],   \* line 92
    [full_name |-> <<52840, 47785>>,
     abbrev |-> <<52840, 47785>>],   \* line 93
    [full_name |-> <<50977, 44033, 54056, 45328>>,
     abbrev |-> <<50977, 44033>>],   \* line 94
    [full_name |-> <<49340, 44257, 47732, 50612, 54056, 47448, 50857, 50612, 52488>>,
     abbrev |-> <<49340, 44257, 47732>>],   \* line 95
    [full_name |-> <<45800, 44053, 51228, 50612, 52488>>,
     abbrev |-> <<45800, 44053, 51228>>],   \* line 96
    [full_name |-> <<48372, 44053>>,
     abbrev |-> <<>>],   \* line 98
    [full_name |-> <<52628, 44032>>,
     abbrev |-> <<>>]   \* line 99
  >>

\* sorted(REEF_ABBREV.items(), key=lambda x: -len(x[0])): a stable sort, so
\* that items of one length keep their declaration order
MaxPatLen == 14

\* the items in declaration order, not sorted
sorted_items_unsorted == REEF_ABBREV

RECURSIVE SortedFrom(_)
SortedFrom(n) ==
  IF n = 0 THEN <<>>
  ELSE SelectSeq(REEF_ABBREV, LAMBDA it : Len(it.full_name) = n) \o SortedFrom(n - 1)

sorted_items == SortedFrom(MaxPatLen)

RECURSIVE FirstMatch(_, _)
FirstMatch(items, text) ==
  IF items = <<>> THEN None
  ELSE IF In(Head(items).full_name, text) /\ Head(items).abbrev # EmptyStr
       THEN Head(items).abbrev
       ELSE FirstMatch(Tail(items), text)

extract_reef_type(name, desc) ==
  LET r1 == IF Truthy(name) THEN FirstMatch(sorted_items, name) ELSE None
      r2 == IF Truthy(desc) THEN FirstMatch(sorted_items, desc) ELSE None
  IN  IF r1 # None THEN r1 ELSE r2

----------------------------------------------------------------------------
(* parse_waypoints.                                                        *)

\* a file is [exists, wellformed, wpts]: wpts are its <wpt> elements, each
\* [lat, lon, name, desc, cmt, sym] with the attribute values lat and lon (None
\* when the attribute is not there) and the text of each child element (None
\* for an element without text, Absent for no element)

\* `elem.text if elem is not None else default`
TextOr(elem, default) == IF elem = Absent THEN default ELSE elem

Waypoint(wpt, lat, lon, source_type) ==
  LET name_text == TextOr(wpt.name, EmptyStr)
      desc_text == TextOr(wpt.desc, EmptyStr)
  IN  [lat |-> lat,
       lon |-> lon,
       original_name |-> Or(name_text, desc_text),
       desc |-> desc_text,
       cmt |-> TextOr(wpt.cmt, EmptyStr),
       sym |-> TextOr(wpt.sym, <<70, 105, 115, 104>>),
       source_type |-> source_type,
       short_name |-> None]

\* the for loop of lines 146-177: the first float() that raises leaves the
\* loop through the except clause, with `waypoints` as appended so far
RECURSIVE ParseLoop(_, _, _)
ParseLoop(wpt_elements, source_type, waypoints) ==
  IF wpt_elements = <<>> THEN [waypoints |-> waypoints, error |-> FALSE]
  ELSE LET wpt == Head(wpt_elements)
           lat == float(wpt.lat)
           lon == float(wpt.lon)
       IN  IF lat.raised \/ lon.raised
           THEN [waypoints |-> waypoints, error |-> TRUE]
           ELSE ParseLoop(Tail(wpt_elements), source_type,
                          Append(waypoints, Waypoint(wpt, lat.val, lon.val, source_type)))

\* returns [waypoints, error]: error is the "Error parsing" line being printed
parse_waypoints(gpx_file, source_type) ==
  IF ~gpx_file.wellformed THEN [waypoints |-> <<>>, error |-> TRUE]
  ELSE ParseLoop(gpx_file.wpts, source_type, <<>>)

----------------------------------------------------------------------------
(* remove_duplicates.                                                      *)

\* is_duplicate with `dist < radius_m` for `dist <= radius_m`
is_duplicate_strict(wpt, unique, radius_m) ==
  \E i \in 1..Len(unique) :
    Lt(haversine(wpt.lat, wpt.lon, unique[i].lat, unique[i].lon), radius_m * 1000)

\* the inner loop of lines 192-196; radius_m is in metres, dist in millimetres
is_duplicate(wpt, unique, radius_m) ==
  \E i \in 1..Len(unique) :
    Le(haversine(wpt.lat, wpt.lon, unique[i].lat, unique[i].lon), radius_m * 1000)

\* the loop with each record compared with the records after it, which keeps
\* the last record of a cluster and not the first
RECURSIVE DedupLoop_keep_last(_, _, _)
DedupLoop_keep_last(waypoints, unique, radius_m) ==
  IF waypoints = <<>> THEN unique
  ELSE DedupLoop_keep_last(Tail(waypoints),
                           IF is_duplicate(Head(waypoints), Tail(waypoints), radius_m)
                           THEN unique
                           ELSE Append(unique, Head(waypoints)),
                           radius_m)

RECURSIVE DedupLoop(_, _, _)
DedupLoop(waypoints, unique, radius_m) ==
  IF waypoints = <<>> THEN unique
  ELSE DedupLoop(Tail(waypoints),
                 IF is_duplicate(Head(waypoints), unique, radius_m)
                 THEN unique
                 ELSE Append(unique, Head(waypoints)),
                 radius_m)

\* remove_duplicates with each record compared with the record before it in
\* the input, accepted or not
remove_duplicates_prev(waypoints, radius_m) ==
  LET kept(i) == i = 1 \/ ~is_duplicate(waypoints[i], <<waypoints[i - 1]>>, radius_m)
      RECURSIVE From(_)
      From(i) == IF i > Len(waypoints) THEN <<>>
                 ELSE (IF kept(i) THEN <<waypoints[i]>> ELSE <<>>) \o From(i + 1)
  IN  From(1)

remove_duplicates(waypoints, radius_m) == DedupLoop(waypoints, <<>>, radius_m)

----------------------------------------------------------------------------
(* generate_short_names.                                                   *)

RECURSIVE Digits(_)
Digits(n) == IF n < 10 THEN <<48 + n>> ELSE Append(Digits(n \div 10), 48 + (n % 10))

RECURSIVE PadLeft(_, _)
PadLeft(ds, width) == IF Len(ds) >= width THEN ds ELSE PadLeft(<<48>> \o ds, width)

\* the number cut to its last three digits
Format03d_trunc(n) == PadLeft(Digits(n % 1000), 3)

\* f"{n:03d}"
Format03d(n) == PadLeft(Digits(n), 3)

\* lines 208-220
Prefix(wpt) ==
  IF wpt.source_type = "own" THEN <<111, 119, 110>>
  ELSE IF wpt.source_type = "other" THEN <<111, 116, 104>>
  ELSE LET reef_type == extract_reef_type(wpt.original_name, wpt.desc)
       IN  IF Truthy(reef_type) THEN reef_type ELSE <<50612, 52488>>

\* the counter set to 1 on every pass
Increment_reset(counters, prefix) == (prefix :> 1) @@ counters

\* lines 223-225
Increment(counters, prefix) ==
  (prefix :> (IF prefix \in DOMAIN counters THEN counters[prefix] ELSE 0) + 1) @@ counters

\* line 228
ShortName(prefix, n) == prefix \o <<95>> \o Format03d(n)

\* one pass of the for loop, lines 207-228
NameOne(wpt, st) ==
  LET prefix == Prefix(wpt)
      counters == Increment(st.counters, prefix)
  IN  [counters |-> counters,
       named |-> Append(st.named,
                        [wpt EXCEPT !.short_name = ShortName(prefix, counters[prefix])])]

\* the passes lo..hi of the loop, in order, from the loop state st.  The
\* range is split in two, and the state after the first half is looked at
\* before the second half starts, to keep the evaluation of a long list shallow.
RECURSIVE NameLoop(_, _, _, _)
NameLoop(waypoints, lo, hi, st) ==
  IF lo > hi THEN st
  ELSE IF lo = hi THEN NameOne(waypoints[lo], st)
  ELSE LET mid == (lo + hi) \div 2
           half == NameLoop(waypoints, lo, mid, st)
       IN  IF Len(half.named) >= mid
           THEN NameLoop(waypoints, mid + 1, hi, half)
           ELSE half

generate_short_names(waypoints) ==
  NameLoop(waypoints, 1, Len(waypoints), [counters |-> << >>, named |-> <<>>]).named

----------------------------------------------------------------------------
(* write_gpx.                                                              *)

RECURSIVE Escape(_)
Escape(text) ==
  IF text = <<>> THEN <<>>
  ELSE (CASE Head(text) = 38 -> <<38, 97, 109, 112, 59>>
          [] Head(text) = 60 -> <<38, 108, 116, 59>>
          [] Head(text) = 62 -> <<38, 103, 116, 59>>
          [] OTHER -> <<Head(text)>>) \o Escape(Tail(text))

\* the <wpt> elements of the output document, lines 249-260
write_gpx(waypoints) ==
  [i \in 1..Len(waypoints) |->
     LET wpt == waypoints[i]
         original == Escape(Or(wpt.original_name, EmptyStr))
     IN  [lat |-> wpt.lat,
          lon |-> wpt.lon,
          name |-> wpt.short_name,
          desc |-> IF Truthy(original) THEN original ELSE Absent,
          sym |-> wpt.sym]]

----------------------------------------------------------------------------
(* Inputs.                                                                 *)

SeqsUpTo(S, n) == UNION {[1..m -> S] : m \in 0..n}

\* attribute values: "0", "0.00005", "180", "x", "127.49999", "127.5", "nan"
Lat0 == <<48>>
Lat5 == <<48, 46, 48, 48, 48, 48, 53>>
Lat180 == <<49, 56, 48>>
LatX == <<120>>
LonWest == <<49, 50, 55, 46, 52, 57, 57, 57, 57>>
LonBoundary == <<49, 50, 55, 46, 53>>
LonNaN == <<110, 97, 110>>

\* labels: "사각형어초", " 보강", "원통", "사각", "시험어초사각전주", "2단상자형강제어초"
TxtSagakReef == <<49324, 44033, 54805, 50612, 52488>>
TxtBogang == <<32, 48372, 44053>>
TxtWontong == <<50896, 53685>>
TxtSagak == <<49324, 44033>>
TxtSiheom == <<49884, 54744, 50612, 52488, 49324, 44033, 51204, 51452>>
Txt2dan == <<50, 45800, 49345, 51088, 54805, 44053, 51228, 50612, 52488>>

RawWpt(lat, lon, name, desc) ==
  [lat |-> lat, lon |-> lon, name |-> name, desc |-> desc, cmt |-> Absent, sym |-> Absent]

\* the <wpt> elements the input files are made of: a west point, a point on
\* the boundary, a point 5.6 m from the west point, a latitude out of range, a
\* NaN longitude, a latitude that is not a number
RawWpts ==
  { RawWpt(Lat0, LonWest, TxtSagakReef, Absent),
    RawWpt(Lat0, LonBoundary, Absent, TxtBogang),
    RawWpt(Lat5, LonWest, None, TxtWontong),
    RawWpt(Lat180, LonBoundary, TxtSagak, Absent),
    RawWpt(Lat0, LonNaN, TxtSagakReef, Absent),
    RawWpt(LatX, LonBoundary, TxtSagakReef, Absent) }

MissingFile == [exists |-> FALSE, wellformed |-> FALSE, wpts |-> <<>>]
MalformedFile == [exists |-> TRUE, wellformed |-> FALSE, wpts |-> <<>>]

\* the files of at most n <wpt> elements
FileContents(n) ==
  {MissingFile, MalformedFile}
    \cup {[exists |-> TRUE, wellformed |-> TRUE, wpts |-> w] : w \in SeqsUpTo(RawWpts, n)}

NoPoints == <<>>
NoOutput == [west |-> <<>>, east |-> <<>>]

----------------------------------------------------------------------------
(* main.                                                                   *)

Init ==
  /\ pc = "west_reef"
  /\ \E a \in FileContents(MaxTotal) :
       \E b \in FileContents(MaxTotal - Len(a.wpts)) :
         \E c \in FileContents(MaxTotal - Len(a.wpts) - Len(b.wpts)) :
           \E d \in FileContents(MaxTotal - Len(a.wpts) - Len(b.wpts) - Len(c.wpts)) :
             files = [west_reef |-> a, west_other |-> b, east_reef |-> c, my_own |-> d]
  /\ west_points = NoPoints
  /\ east_points = NoPoints
  /\ west_unique = NoPoints
  /\ east_unique = NoPoints
  /\ written = NoOutput
  /\ errors = {}
  /\ arg = <<>>
  /\ ret = <<>>
  /\ ret2 = <<>>

\* lines 293-297
ParseWestReef ==
  /\ pc = "west_reef"
  /\ LET points == parse_waypoints(files.west_reef, "reef")
     IN  IF files.west_reef.exists
         THEN /\ west_points' = west_points \o points.waypoints
              /\ errors' = IF points.error THEN errors \cup {"west_reef"} ELSE errors
         ELSE UNCHANGED <<west_points, errors>>
  /\ pc' = "west_other"
  /\ UNCHANGED <<files, east_points, west_unique, east_unique, written, arg, ret, ret2>>

\* lines 300-304
ParseWestOther ==
  /\ pc = "west_other"
  /\ LET points == parse_waypoints(files.west_other, "other")
     IN  IF files.west_other.exists
         THEN /\ west_points' = west_points \o points.waypoints
              /\ errors' = IF points.error THEN errors \cup {"west_other"} ELSE errors
         ELSE UNCHANGED <<west_points, errors>>
  /\ pc' = "east_reef"
  /\ UNCHANGED <<files, east_points, west_unique, east_unique, written, arg, ret, ret2>>

\* lines 307-311
ParseEastReef ==
  /\ pc = "east_reef"
  /\ LET points == parse_waypoints(files.east_reef, "reef")
     IN  IF files.east_reef.exists
         THEN /\ east_points' = east_points \o points.waypoints
              /\ errors' = IF points.error THEN errors \cup {"east_reef"} ELSE errors
         ELSE UNCHANGED <<east_points, errors>>
  /\ pc' = "my_own"
  /\ UNCHANGED <<files, west_points, west_unique, east_unique, written, arg, ret, ret2>>

\* the own points put in front of the candidates and not behind them
ParseMyOwn_first ==
  /\ pc = "my_own"
  /\ LET my_points == parse_waypoints(files.my_own, "own")
         my_west == SelectSeq(my_points.waypoints, LAMBDA p : Lt(p.lon, LON_BOUNDARY))
         my_east == SelectSeq(my_points.waypoints, LAMBDA p : Ge(p.lon, LON_BOUNDARY))
     IN  IF files.my_own.exists
         THEN /\ west_points' = my_west \o west_points
              /\ east_points' = my_east \o east_points
              /\ errors' = IF my_points.error THEN errors \cup {"my_own"} ELSE errors
         ELSE UNCHANGED <<west_points, east_points, errors>>
  /\ pc' = "dedup"
  /\ UNCHANGED <<files, west_unique, east_unique, written, arg, ret, ret2>>

\* lines 314-320
ParseMyOwn ==
  /\ pc = "my_own"
  /\ LET my_points == parse_waypoints(files.my_own, "own")
         my_west == SelectSeq(my_points.waypoints, LAMBDA p : Lt(p.lon, LON_BOUNDARY))
         my_east == SelectSeq(my_points.waypoints, LAMBDA p : Ge(p.lon, LON_BOUNDARY))
     IN  IF files.my_own.exists
         THEN /\ west_points' = west_points \o my_west
              /\ east_points' = east_points \o my_east
              /\ errors' = IF my_points.error THEN errors \cup {"my_own"} ELSE errors
         ELSE UNCHANGED <<west_points, east_points, errors>>
  /\ pc' = "dedup"
  /\ UNCHANGED <<files, west_unique, east_unique, written, arg, ret, ret2>>

\* lines 327-328
RemoveDuplicates ==
  /\ pc = "dedup"
  /\ west_unique' = remove_duplicates(west_points, DUPLICATE_RADIUS_M)
  /\ east_unique' = remove_duplicates(east_points, DUPLICATE_RADIUS_M)
  /\ pc' = "names"
  /\ UNCHANGED <<files, west_points, east_points, written, errors, arg, ret, ret2>>

\* lines 335-336; west_points and east_points keep the records as they were
\* before the short names were set
GenerateShortNames ==
  /\ pc = "names"
  /\ west_unique' = generate_short_names(west_unique)
  /\ east_unique' = generate_short_names(east_unique)
  /\ pc' = "write"
  /\ UNCHANGED <<files, west_points, east_points, written, errors, arg, ret, ret2>>

\* lines 359-360
WriteResults ==
  /\ pc = "write"
  /\ written' = [west |-> write_gpx(west_unique), east |-> write_gpx(east_unique)]
  /\ pc' = "done"
  /\ UNCHANGED <<files, west_points, east_points, west_unique, east_unique, errors, arg, ret, ret2>>

Next ==
  \/ ParseWestReef
  \/ ParseWestOther
  \/ ParseEastReef
  \/ ParseMyOwn
  \/ RemoveDuplicates
  \/ GenerateShortNames
  \/ WriteResults

Spec == Init /\ [][Next]_vars

----------------------------------------------------------------------------
(* remove_duplicates on its own: every sequence of at most MaxLen points   *)
(* of a small cluster, every radius of Radii, and the function applied to  *)
(* its own result.                                                         *)

Point(dlat, dlon) ==
  Waypoint(RawWpt(Lat0, LonBoundary, TxtSagak, Absent),
           dlat, IF dlon = NaN THEN NaN ELSE LON_BOUNDARY + dlon, "reef")

\* distances in m: a-b 5.6, a-c 10.008, b-c 4.4, a-d 8.9, b-d 10.5, c-d 13.4;
\* the last point has a NaN longitude
DedupPoints == {Point(0, 0), Point(5, 0), Point(9, 0), Point(0, 8), Point(0, NaN)}

Radii == {-1, 0, 5, 10, 11}

InitDedup ==
  /\ pc = "call"
  /\ arg \in {[waypoints |-> w, radius_m |-> r] : w \in SeqsUpTo(DedupPoints, MaxLen), r \in Radii}
  /\ ret = <<>>
  /\ ret2 = <<>>
  /\ files = <<>>
  /\ west_points = NoPoints
  /\ east_points = NoPoints
  /\ west_unique = NoPoints
  /\ east_unique = NoPoints
  /\ written = NoOutput
  /\ errors = {}

CallRemoveDuplicates ==
  /\ pc = "call"
  /\ ret' = remove_duplicates(arg.waypoints, arg.radius_m)
  /\ pc' = "again"
  /\ UNCHANGED <<files, west_points, east_points, west_unique, east_unique, written, errors, arg, ret2>>

CallRemoveDuplicatesAgain ==
  /\ pc = "again"
  /\ ret2' = remove_duplicates(ret, arg.radius_m)
  /\ pc' = "returned"
  /\ UNCHANGED <<files, west_points, east_points, west_unique, east_unique, written, errors, arg, ret>>

NextDedup ==
  \/ CallRemoveDuplicates
  \/ CallRemoveDuplicatesAgain

SpecDedup == InitDedup /\ [][NextDedup]_vars

----------------------------------------------------------------------------
(* generate_short_names as main calls it, on the west and then on the east *)
(* list: every pair of short lists of the five kinds of record, and a long *)
(* west list of one prefix.                                                *)

\* the kinds: own, other, reef "사각형어초", reef " 보강" (no type), reef typed by its desc
NameKinds ==
  { [source_type |-> "own", name |-> TxtSagak, desc |-> Absent],
    [source_type |-> "other", name |-> Absent, desc |-> Absent],
    [source_type |-> "reef", name |-> TxtSagakReef, desc |-> Absent],
    [source_type |-> "reef", name |-> TxtBogang, desc |-> None],
    [source_type |-> "reef", name |-> Absent, desc |-> TxtSagak] }

\* the i-th record of a region's list, 100 grid units from its neighbours
Located(kinds, lon) ==
  [i \in 1..Len(kinds) |->
     Waypoint(RawWpt(Lat0, LonBoundary, kinds[i].name, kinds[i].desc),
              100 * i, lon, kinds[i].source_type)]

OwnKind == [source_type |-> "own", name |-> TxtSagak, desc |-> Absent]

LongRun == [i \in 1..LongRunLen |-> OwnKind]

InitNames ==
  /\ pc = "names"
  /\ \E w \in SeqsUpTo(NameKinds, MaxNameLen) \cup {LongRun} :
       \E e \in IF w = LongRun THEN {<<OwnKind>>} ELSE SeqsUpTo(NameKinds, MaxNameLen) :
          /\ west_points = Located(w, LON_BOUNDARY - 1)
          /\ east_points = Located(e, LON_BOUNDARY)
          /\ west_unique = Located(w, LON_BOUNDARY - 1)
          /\ east_unique = Located(e, LON_BOUNDARY)
  /\ files = <<>>
  /\ written = NoOutput
  /\ errors = {}
  /\ arg = <<>>
  /\ ret = <<>>
  /\ ret2 = <<>>

NextNames ==
  \/ GenerateShortNames
  \/ WriteResults

SpecNames == InitNames /\ [][NextNames]_vars

----------------------------------------------------------------------------
(* extract_reef_type on its own: labels and notes made of at most MaxFrags *)
(* fragments.                                                              *)

Fragments == {TxtSagak, TxtWontong, TxtBogang, TxtSiheom, Txt2dan}

RECURSIVE Concat(_)
Concat(ss) == IF ss = <<>> THEN <<>> ELSE Head(ss) \o Concat(Tail(ss))

Texts == {None} \cup {Concat(fs) : fs \in SeqsUpTo(Fragments, MaxFrags)}

InitReef ==
  /\ pc = "call"
  /\ arg \in [name : Texts, desc : Texts]
  /\ ret = None
  /\ ret2 = <<>>
  /\ files = <<>>
  /\ west_points = NoPoints
  /\ east_points = NoPoints
  /\ west_unique = NoPoints
  /\ east_unique = NoPoints
  /\ written = NoOutput
  /\ errors = {}

CallExtractReefType ==
  /\ pc = "call"
  /\ ret' = extract_reef_type(arg.name, arg.desc)
  /\ pc' = "returned"
  /\ UNCHANGED <<files, west_points, east_points, west_unique, east_unique, written, errors, arg, ret2>>

NextReef == CallExtractReefType

SpecReef == InitReef /\ [][NextReef]_vars

----------------------------------------------------------------------------
(* Properties of remove_duplicates, under SpecDedup.                       *)

Within(a, b, radius_m) == Le(haversine(a.lat, a.lon, b.lat, b.lon), radius_m * 1000)

\* the records of s at the positions of K, in the order of s
RECURSIVE PickFrom(_, _, _)
PickFrom(s, K, i) ==
  IF i > Len(s) THEN <<>>
  ELSE (IF i \in K THEN <<s[i]>> ELSE <<>>) \o PickFrom(s, K, i + 1)

\* C1: the result of remove_duplicates is the input restricted to a set K of
\* positions, in input order, where a position is outside K if and only if its
\* record is within radius_m (distance <= radius_m) of the record of an earlier
\* position of K.
C1_GreedyFilter ==
  pc \in {"again", "returned"} =>
    LET s == arg.waypoints
    IN  \E K \in SUBSET (1..Len(s)) :
          /\ ret = PickFrom(s, K, 1)
          /\ \A i \in 1..Len(s) :
               (i \notin K) <=> (\E j \in K : j < i /\ Within(s[i], s[j], arg.radius_m))

\* a record at distance exactly radius_m (0) of an accepted one was dropped,
\* and at least two records were accepted
C1_Witness ==
  /\ pc = "again"
  /\ arg.radius_m = 0
  /\ Len(ret) >= 2
  /\ Len(ret) < Len(arg.waypoints)

\* C2: remove_duplicates applied to its own result returns that result.
C2_Idempotent == pc = "returned" => ret2 = ret

C2_Witness ==
  /\ pc = "returned"
  /\ arg.radius_m = DUPLICATE_RADIUS_M
  /\ Len(ret) >= 2
  /\ Len(ret) < Len(arg.waypoints)
  /\ ret2 = ret

MutuallyWithin(s, radius_m) ==
  \A i, j \in 1..Len(s) : i # j => Within(s[i], s[j], radius_m)

\* C8: the result is never longer than the input, the first input record is
\* always the first record of the result, and an input whose records are all
\* mutually within radius_m gives the first input record alone.
C8_FirstOfClusterKept ==
  pc \in {"again", "returned"} =>
    LET s == arg.waypoints
    IN  /\ Len(ret) <= Len(s)
        /\ s # <<>> => (ret # <<>> /\ ret[1] = s[1])
        /\ (s # <<>> /\ MutuallyWithin(s, arg.radius_m)) => ret = <<s[1]>>

\* three different points, all mutually within the radius, reduced to the first
C8_Witness ==
  /\ pc = "again"
  /\ Cardinality({arg.waypoints[i] : i \in 1..Len(arg.waypoints)}) >= 3
  /\ MutuallyWithin(arg.waypoints, arg.radius_m)
  /\ ret = <<arg.waypoints[1]>>

----------------------------------------------------------------------------
(* Properties of generate_short_names, under SpecNames.                    *)

ShortNamesOf(named) == {named[i].short_name : i \in 1..Len(named)}

\* named is waypoints with a short name on every record, all different
UniquelyNamed(waypoints, named) ==
  /\ Len(named) = Len(waypoints)
  /\ \A i \in 1..Len(named) :
       /\ [named[i] EXCEPT !.short_name = None] = waypoints[i]
       /\ Truthy(named[i].short_name)
  /\ Cardinality(ShortNamesOf(named)) = Len(named)

\* C4: after generate_short_names every record of the west list and of the
\* east list is the input record with one non-empty short name, and no two
\* records of a list have the same short name.
C4_UniqueShortNames ==
  pc \in {"write", "done"} =>
    /\ UniquelyNamed(west_points, west_unique)
    /\ UniquelyNamed(east_points, east_unique)

\* a reef record named with the fallback prefix "어초" next to an own record
C4_Witness ==
  /\ pc = "write"
  /\ \E i, j \in 1..Len(west_unique) :
       /\ west_unique[i].short_name = <<50612, 52488, 95, 48, 48, 49>>
       /\ west_unique[j].source_type = "own"

\* ds is the decimal text of k, zero-padded to 3 digits and not cut
NumberText(ds, k) ==
  /\ Len(ds) >= 3
  /\ \A i \in 1..Len(ds) : IsDigit(ds[i])
  /\ IntOf(ds) = k
  /\ Len(ds) > 3 => ds[1] # 48

NumberedPerPrefix(named) ==
  \A i \in 1..Len(named) :
    LET p == Prefix(named[i])
        k == Cardinality({j \in 1..i : Prefix(named[j]) = p})
        sn == named[i].short_name
    IN  /\ Len(sn) > Len(p) + 1
        /\ SubSeq(sn, 1, Len(p)) = p
        /\ sn[Len(p) + 1] = 95
        /\ NumberText(SubSeq(sn, Len(p) + 2, Len(sn)), k)

\* C5: in the west list and in the east list the k-th record of prefix p is
\* named p, "_", and k in decimal, zero-padded to 3 digits and in full from
\* 1000 on; the east numbering starts at 1 whatever the west list was.
C5_PerPrefixNumbering ==
  pc \in {"write", "done"} =>
    /\ NumberedPerPrefix(west_unique)
    /\ NumberedPerPrefix(east_unique)

\* the west list reached own_1000 and the east list starts at own_001
C5_Witness ==
  /\ pc = "write"
  /\ \E i \in 1..Len(west_unique) :
       west_unique[i].short_name = <<111, 119, 110, 95, 49, 48, 48, 48>>
  /\ east_unique # <<>>
  /\ east_unique[1].short_name = <<111, 119, 110, 95, 48, 48, 49>>

----------------------------------------------------------------------------
(* Properties of extract_reef_type, under SpecReef.                        *)

\* the table entries with a non-empty abbreviation whose pattern is in text
Matching(text) ==
  {i \in 1..Len(REEF_ABBREV) :
     REEF_ABBREV[i].abbrev # EmptyStr /\ In(REEF_ABBREV[i].full_name, text)}

\* the longest of them, the first declared among those of equal length
Longest(text) ==
  CHOOSE i \in Matching(text) :
    \A j \in Matching(text) \ {i} :
      \/ Len(REEF_ABBREV[j].full_name) < Len(REEF_ABBREV[i].full_name)
      \/ Len(REEF_ABBREV[j].full_name) = Len(REEF_ABBREV[i].full_name) /\ j > i

Classified(text) ==
  IF Truthy(text) /\ Matching(text) # {} THEN REEF_ABBREV[Longest(text)].abbrev ELSE None

\* C6: extract_reef_type returns the abbreviation of the longest pattern with
\* a non-empty abbreviation found in the label (the first declared of equal
\* lengths), else the same of the note, else None; the label
\* "2단상자형강제어초 보강" gives "2단상자".
C6_LongestNonSuppressedMatch ==
  pc = "returned" =>
    /\ ret = IF Classified(arg.name) # None THEN Classified(arg.name) ELSE Classified(arg.desc)
    /\ arg.name = Txt2dan \o TxtBogang => ret = <<50, 45800, 49345, 51088>>

C6_Witness ==
  /\ pc = "returned"
  /\ arg.name = Txt2dan \o TxtBogang
  /\ ret = <<50, 45800, 49345, 51088>>

----------------------------------------------------------------------------
(* Properties of main, under Spec.                                         *)

OfType(points, types) == SelectSeq(points, LAMBDA p : p.source_type \in types)

Parsed == {"west_other", "east_reef", "my_own", "dedup", "names", "write", "done"}

\* C3: a file whose parse hit an exception contributes no record to the
\* candidate lists (and the run goes on with the other files).
C3_ParseFailureYieldsNoRecords ==
  /\ (pc \in Parsed /\ "west_reef" \in errors) => OfType(west_points, {"reef"}) = <<>>
  /\ (pc \in Parsed \ {"west_other"} /\ "west_other" \in errors)
       => OfType(west_points, {"other"}) = <<>>
  /\ (pc \in Parsed \ {"west_other", "east_reef"} /\ "east_reef" \in errors)
       => OfType(east_points, {"reef"}) = <<>>
  /\ (pc \in Parsed \ {"west_other", "east_reef", "my_own"} /\ "my_own" \in errors)
       => OfType(west_points \o east_points, {"own"}) = <<>>

\* the records of a file that main read, none for a file that is not there
RecordsOf(file, source_type) ==
  IF file.exists THEN parse_waypoints(file, source_type).waypoints ELSE <<>>

\* C7: every own record is in exactly one candidate list, the west one when
\* its longitude is below LON_BOUNDARY and the east one otherwise; the records
\* of the other files are in the list of their file's region whatever their
\* longitude.
C7_RegionBySourcePolicy ==
  pc \in {"dedup", "names"} =>
    LET own == RecordsOf(files.my_own, "own")
    IN  /\ OfType(west_points, {"own"}) = SelectSeq(own, LAMBDA p : Lt(p.lon, LON_BOUNDARY))
        /\ OfType(east_points, {"own"}) = SelectSeq(own, LAMBDA p : ~Lt(p.lon, LON_BOUNDARY))
        /\ OfType(west_points, {"reef"}) = RecordsOf(files.west_reef, "reef")
        /\ OfType(west_points, {"other"}) = RecordsOf(files.west_other, "other")
        /\ OfType(east_points, {"reef"}) = RecordsOf(files.east_reef, "reef")

InRange(p) ==
  /\ Le(-90 * CoordScale, p.lat) /\ Le(p.lat, 90 * CoordScale)
  /\ Le(-180 * CoordScale, p.lon) /\ Le(p.lon, 180 * CoordScale)

\* C9: every record of the candidate lists, of the deduplicated lists and of
\* the output has a latitude in [-90, 90] and a longitude in [-180, 180].
C9_CoordinatesInRange ==
  \A points \in {west_points, east_points, west_unique, east_unique,
                 written.west, written.east} :
    \A i \in 1..Len(points) : InRange(points[i])

Rank(p) == CASE p.source_type = "reef" -> 1
             [] p.source_type = "other" -> 2
             [] p.source_type = "own" -> 3

\* reef records first, then other records, then own records
InSourceOrder(points) ==
  \A i, j \in 1..Len(points) : i < j => Rank(points[i]) <= Rank(points[j])

PriorityKept(points, unique) ==
  /\ OfType(unique, {"reef"}) = remove_duplicates(OfType(points, {"reef"}), DUPLICATE_RADIUS_M)
  /\ OfType(unique, {"reef", "other"})
       = remove_duplicates(OfType(points, {"reef", "other"}), DUPLICATE_RADIUS_M)

\* C10: the candidates of a region are in the order reef, other, own; the
\* reef records of its deduplicated list are remove_duplicates of its reef
\* candidates alone, and its reef and other records are remove_duplicates of
\* its reef and other candidates alone.
C10_SourcePriority ==
  /\ InSourceOrder(west_points)
  /\ InSourceOrder(east_points)
  /\ pc = "names" => (PriorityKept(west_points, west_unique) /\ PriorityKept(east_points, east_unique))

\* an other or own record was dropped for being within the radius of a reef record
C10_Witness ==
  /\ pc = "names"
  /\ \E i, j \in 1..Len(west_points) :
       /\ west_points[i].source_type = "reef"
       /\ west_points[j].source_type # "reef"
       /\ Within(west_points[j], west_points[i], DUPLICATE_RADIUS_M)
       /\ \A k \in 1..Len(west_unique) : west_unique[k] # west_points[j]

====
